---- MODULE Spec2Model ----
(***************************************************************************)
(* federal-gov-rss (main.go): a spreadsheet exported as CSV is converted   *)
(* into an RSS 2.0 document, cached in memory under a mutex and served on  *)
(* /rss.                                                                   *)
(*                                                                         *)
(* Three specifications share this module:                                 *)
(*   SpecRecord  item.fromRecord applied to bounded header/field rows      *)
(*   SpecCSV     rss.fromCSV applied to bounded CSV inputs and maxima      *)
(*   Spec        main: the refresh goroutine interleaved with handlers     *)
(*                                                                         *)
(* Go slices are 0-indexed, TLA+ sequences 1-indexed: the operators keep   *)
(* Go's indices and read s[i] of the source as At(s, i).                   *)
(***************************************************************************)
EXTENDS Integers, Sequences, FiniteSets, TLC

VARIABLES
    \* ---- item.fromRecord under test (SpecRecord)
    headers, fields, e, recPc,
    \* ---- rss.fromCSV under test (SpecCSV)
    csvIn, maxRecords, rs, csvErr, csvPc,
    \* ---- the process (Spec)
    pcMain,      \* position of main()
    alive,       \* FALSE once log.Fatal has exited the process
    pcRefresh,   \* position of the refresh goroutine
    resp,        \* what http.Get answered in sheet2rss.get
    r, feed, content, err,      \* locals of sheet2rss.refresh
    mu, ready, cached, digest,  \* fields of sheet2rss
    hpc, method, hcontent, status, body   \* per request handler goroutine

recVars == <<headers, fields, e, recPc>>
csvVars == <<csvIn, maxRecords, rs, csvErr, csvPc>>
refreshVars == <<pcRefresh, resp, r, feed, content, err>>
cacheVars == <<mu, ready, cached, digest>>
handlerVars == <<hpc, method, hcontent, status, body>>
sysVars == <<pcMain, alive, refreshVars, cacheVars, handlerVars>>
vars == <<recVars, csvVars, sysVars>>

-----------------------------------------------------------------------------
(* Bounds of the model *)

MaxHeaders == 3      \* longest header row given to fromRecord
MaxFields == 3       \* longest data row given to fromRecord
MaxLines == 4        \* most lines of a CSV input given to fromCSV
MaxN == 3            \* largest maxRecords given to fromCSV
NumHandlers == 2     \* request handler goroutines running concurrently

-----------------------------------------------------------------------------
(* Constants of the program *)

Title == "Federal Government 2017"
Desc == "Summaries of events from the US Government."
URL == "http://jlord.us/federal-gov/"
NumEntries == 20

\* the zero values of new(item) and new(rss); a nil *channel is <<>>,
\* a non-nil one the one-element sequence holding the channel
NewItem ==
    [Title |-> "", Link |-> "", Description |-> "", PubDate |-> "", Category |-> ""]
NewRss == [Version |-> "", Channel |-> <<>>]

At(s, i) == s[i + 1]

-----------------------------------------------------------------------------
(* parseDate: the first layout that parses the string gives the instant,   *)
(* otherwise the wall clock.  The strings the model uses are listed with   *)
(* the instant time.Parse gives under the layout "1/2/2006"; instants are  *)
(* written in RFC 3339.                                                    *)

KnownDates == {"1/2/2017", "1/5/2017"}
Clock == {"2026-11-01T10:00:00Z", "2026-11-01T10:00:01Z"}

parseDate(s, now) ==
    CASE s = "1/2/2017" -> "2017-01-02T00:00:00Z"
      [] s = "1/5/2017" -> "2017-01-05T00:00:00Z"
      [] OTHER -> now

\* time.Time.Format(time.RFC1123Z)
FormatRFC1123Z(t) ==
    CASE t = "2017-01-02T00:00:00Z" -> "Mon, 02 Jan 2017 00:00:00 +0000"
      [] t = "2017-01-05T00:00:00Z" -> "Thu, 05 Jan 2017 00:00:00 +0000"
      [] t = "2026-11-01T10:00:00Z" -> "Sun, 01 Nov 2026 10:00:00 +0000"
      [] t = "2026-11-01T10:00:01Z" -> "Sun, 01 Nov 2026 10:00:01 +0000"

-----------------------------------------------------------------------------
(* item.fromRecord *)

\* mutant of get: the bounds test is off by one, the last field reads as ""
getOffByOne(flds, i) == IF i < Len(flds) - 1 THEN At(flds, i) ELSE ""

\* the closure get := func(i int) string
get(flds, i) == IF i < Len(flds) THEN At(flds, i) ELSE ""

\* strings.Join(cats, ",")
RECURSIVE Join(_)
Join(cats) ==
    IF Len(cats) = 0 THEN ""
    ELSE IF Len(cats) = 1 THEN cats[1]
    ELSE cats[1] \o "," \o Join(Tail(cats))

\* one pass of the body of `for i, h := range headers`: the switch on h,
\* acting on the pair (entry, cats)
recordCase(st, h, v, now) ==
    CASE h = "date" ->
           [st EXCEPT !.e.PubDate = FormatRFC1123Z(parseDate(v, now))]
      [] h = "description" -> [st EXCEPT !.e.Title = v]
      [] h = "article" -> [st EXCEPT !.e.Link = v]
      [] h \in {"activity", "branch"} -> [st EXCEPT !.cats = Append(@, v)]
      [] h = "detail" -> [st EXCEPT !.e.Description = v]
      [] OTHER -> st

\* the range loop from index i on
RECURSIVE recordLoop(_, _, _, _, _)
recordLoop(st, hdrs, flds, i, now) ==
    IF i >= Len(hdrs) THEN st
    ELSE recordLoop(recordCase(st, At(hdrs, i), get(flds, i), now),
                    hdrs, flds, i + 1, now)

\* (e *item) fromRecord(headers, fields), e given as its value on entry
fromRecord(e0, hdrs, flds, now) ==
    LET st == recordLoop([e |-> e0, cats |-> <<>>], hdrs, flds, 0, now)
    IN  [st.e EXCEPT !.Category = Join(st.cats)]

-----------------------------------------------------------------------------
(* encoding/csv as rss.fromCSV uses it (default Reader).  A CSV input is   *)
(* given line by line, each line already split at its commas into fields;  *)
(* <<>> is a blank line.  ReadAll skips blank lines, fails on a field with *)
(* a bare quote (LazyQuotes is off) and, FieldsPerRecord being 0, fails on *)
(* a record whose field count differs from the first record's.             *)

BareQuote == "a\"b"

ErrNil == "nil"
ErrBareQuote == "bare \" in non-quoted-field"
ErrFieldCount == "wrong number of fields"
ErrNoRecords == "no records"

HasBareQuote(line) == \E k \in 1..Len(line) : line[k] = BareQuote

RECURSIVE readLoop(_, _, _)
readLoop(lines, k, records) ==
    IF k > Len(lines) THEN [err |-> ErrNil, records |-> records]
    ELSE IF lines[k] = <<>> THEN readLoop(lines, k + 1, records)
    ELSE IF HasBareQuote(lines[k]) THEN [err |-> ErrBareQuote, records |-> <<>>]
    ELSE IF Len(records) > 0 /\ Len(lines[k]) # Len(records[1])
         THEN [err |-> ErrFieldCount, records |-> <<>>]
    ELSE readLoop(lines, k + 1, Append(records, lines[k]))

\* csv.NewReader(r).ReadAll()
ReadAll(lines) == readLoop(lines, 1, <<>>)

-----------------------------------------------------------------------------
(* rss.fromCSV *)

\* mutant of TooFewRecords: only an empty input is refused
NoRecordsAtAll(records) == Len(records) < 1

\* if len(records) <= 1
TooFewRecords(records) == Len(records) <= 1

\* start := len(records) - maxRecords; if start <= 0 { start = 1 }
startIndex(records, maxRec) ==
    IF Len(records) - maxRec <= 0 THEN 1 ELSE Len(records) - maxRec

\* for i := len(records) - 1; i > start; i-- { ... out = append(out, e) }
RECURSIVE itemLoop(_, _, _, _, _)
itemLoop(out, records, i, start, now) ==
    IF i > start
    THEN itemLoop(Append(out, fromRecord(NewItem, At(records, 0), At(records, i), now)),
                  records, i - 1, start, now)
    ELSE out

\* (rs *rss) fromCSV(r, maxRecords): the error returned and rs on return
fromCSV(rs0, lines, maxRec, now) ==
    LET read == ReadAll(lines)
        records == read.records
    IN  IF read.err # ErrNil THEN [err |-> read.err, rs |-> rs0]
        ELSE IF TooFewRecords(records) THEN [err |-> ErrNoRecords, rs |-> rs0]
        ELSE LET start == startIndex(records, maxRec)
                 out == itemLoop(<<>>, records, Len(records) - 1, start, now)
             IN  [err |-> ErrNil,
                  rs |-> [Version |-> "2.0",
                          Channel |-> <<[Title |-> Title, Link |-> URL,
                                         Description |-> Desc, Items |-> out]>>]]

-----------------------------------------------------------------------------
(* encoding/xml: xml.Marshal of the rss value, as one string.  The strings *)
(* of the model hold none of the characters Marshal escapes.               *)

Element(tag, v) == "<" \o tag \o ">" \o v \o "</" \o tag \o ">"

\* a field tagged omitempty is left out when it is ""
OmitEmpty(tag, v) == IF v = "" THEN "" ELSE Element(tag, v)

MarshalItem(it) ==
    Element("item",
            Element("title", it.Title) \o Element("link", it.Link)
              \o Element("description", it.Description)
              \o OmitEmpty("pubDate", it.PubDate)
              \o OmitEmpty("category", it.Category))

RECURSIVE MarshalItems(_)
MarshalItems(items) ==
    IF items = <<>> THEN "" ELSE MarshalItem(Head(items)) \o MarshalItems(Tail(items))

MarshalChannel(ch) ==
    Element("channel",
            Element("title", ch.Title) \o Element("link", ch.Link)
              \o Element("description", ch.Description) \o MarshalItems(ch.Items))

\* xml.Marshal(feed); a nil Channel is left out
Marshal(f) ==
    "<rss version=\"" \o f.Version \o "\">"
      \o (IF f.Channel = <<>> THEN "" ELSE MarshalChannel(f.Channel[1]))
      \o "</rss>"

\* fmt.Sprintf("% x", sha1.Sum(content)): a digest stands as the term
\* naming the bytes it was computed from
Sha1Hex(c) == "sha1(" \o c \o ")"

XMLDecl == "<?xml version=\"1.0\" encoding=\"UTF-8\" ?>"

-----------------------------------------------------------------------------
(* The values of the process state *)

Handlers == 1..NumHandlers

\* sync.Mutex: unlocked, or locked by the goroutine named
Free == <<>>
ByRefresh == <<"refresh">>
ByHandler(h) == <<"handler", h>>

Methods == {"GET", "POST", "HEAD"}

\* net/http status codes; NoStatus: no response written
NoStatus == 0
StatusOK == 200
StatusNotFound == 404
StatusMethodNotAllowed == 405

ErrDial == "dial tcp: connection refused"
ErrRead == "unexpected EOF"
ErrMarshal == "xml: unsupported type"

NoResponse == [transport |-> ErrNil, status |-> NoStatus, body |-> <<>>]

-----------------------------------------------------------------------------
(* SpecRecord: item.fromRecord on every header row and data row within the *)
(* bounds, the two lengths chosen independently.                           *)

HeaderNames ==
    {"date", "description", "article", "activity", "branch", "detail", "notes"}
FieldVals == {"", "x", "y"}

SeqsUpTo(S, n) == UNION {[1..k -> S] : k \in 0..n}

\* the other specifications' variables, at rest
csvIdle ==
    /\ csvIn = <<>> /\ maxRecords = 0 /\ rs = NewRss
    /\ csvErr = ErrNil /\ csvPc = "off"
recIdle ==
    /\ headers = <<>> /\ fields = <<>> /\ e = NewItem /\ recPc = "off"
sysIdle ==
    /\ pcMain = "off" /\ alive = FALSE /\ pcRefresh = "off"
    /\ resp = NoResponse
    /\ r = <<>> /\ feed = NewRss /\ content = "" /\ err = ErrNil
    /\ mu = Free /\ ready = FALSE /\ cached = "" /\ digest = ""
    /\ hpc = [h \in Handlers |-> "off"]
    /\ method = [h \in Handlers |-> ""]
    /\ hcontent = [h \in Handlers |-> ""]
    /\ status = [h \in Handlers |-> NoStatus]
    /\ body = [h \in Handlers |-> ""]

InitRecord ==
    /\ headers \in SeqsUpTo(HeaderNames, MaxHeaders)
    /\ fields \in SeqsUpTo(FieldVals, MaxFields)
    /\ e = NewItem             \* e := new(item)
    /\ recPc = "call"
    /\ csvIdle /\ sysIdle

\* e.fromRecord(headers, fields)
CallFromRecord ==
    /\ recPc = "call"
    /\ \E now \in Clock : e' = fromRecord(e, headers, fields, now)
    /\ recPc' = "done"
    /\ UNCHANGED <<headers, fields, csvVars, sysVars>>

NextRecord == CallFromRecord

SpecRecord == InitRecord /\ [][NextRecord]_vars

\* ---- C7 ----
\* the data row read at every header position: the row followed by ""
PaddedFields == fields \o [k \in 1..Len(headers) |-> ""]

\* the value under column `name`: "" when no header has that name, else
\* the field at the (last) position of that name
ValueUnder(name) ==
    LET pos == {k \in 1..Len(headers) : headers[k] = name}
    IN  IF pos = {} THEN ""
        ELSE PaddedFields[CHOOSE k \in pos : \A j \in pos : j <= k]

\* the values under `activity` and `branch`, in header order
CategoryValues ==
    LET idx == [k \in 1..Len(headers) |-> k]
        sel == SelectSeq(idx, LAMBDA k : headers[k] \in {"activity", "branch"})
    IN  [j \in 1..Len(sel) |-> PaddedFields[sel[j]]]

\* C7: item.fromRecord is total and maps by exact column name: for every
\* header row and data row of any lengths the call returns; title is the
\* value under `description`, link the value under `article`, description
\* the value under `detail`, category the values under `activity` and
\* `branch` comma-joined in header order; an absent column gives "", a
\* header position past the end of the data row reads as "", and columns
\* of any other name change nothing.
C7_RecordMapping ==
    /\ recPc = "call" => ENABLED CallFromRecord
    /\ recPc = "done" =>
         /\ e.Title = ValueUnder("description")
         /\ e.Link = ValueUnder("article")
         /\ e.Description = ValueUnder("detail")
         /\ e.Category = Join(CategoryValues)
         /\ (\A k \in 1..Len(headers) : headers[k] # "date") => e.PubDate = ""

\* a data row shorter than its header, both category columns in reverse
\* order around a column of another name
C7_Witness ==
    /\ recPc = "done"
    /\ headers = <<"branch", "notes", "activity">>
    /\ fields = <<"x", "y">>
    /\ e.Category = "x,"
    /\ e.Title = ""

-----------------------------------------------------------------------------
(* SpecCSV: rss.fromCSV on every CSV input of at most MaxLines lines drawn *)
(* from CsvLines, with maxRecords from 1..MaxN or the program's NumEntries.*)

ExampleHeader == <<"date", "description", "article", "activity", "branch", "detail">>
ExampleRow1 ==
    <<"1/2/2017", "Bill signed", "http://x/1", "signing", "executive", "Some detail">>
ExampleRow2 ==
    <<"1/5/2017", "Vote held", "http://x/2", "vote", "legislative", "Another detail">>

CsvLines ==
    {<<>>, ExampleHeader, ExampleRow1, ExampleRow2, <<"short", "row">>,
     <<BareQuote>>}

InitCSV ==
    /\ csvIn \in SeqsUpTo(CsvLines, MaxLines)
    /\ maxRecords \in (1..MaxN) \cup {NumEntries}
    /\ rs = NewRss             \* feed := new(rss)
    /\ csvErr = ErrNil
    /\ csvPc = "call"
    /\ recIdle /\ sysIdle

\* err = rs.fromCSV(r, maxRecords)
CallFromCSV ==
    /\ csvPc = "call"
    /\ \E now \in Clock :
         LET res == fromCSV(rs, csvIn, maxRecords, now)
         IN  rs' = res.rs /\ csvErr' = res.err
    /\ csvPc' = "done"
    /\ UNCHANGED <<csvIn, maxRecords, recVars, sysVars>>

NextCSV == CallFromCSV

SpecCSV == InitCSV /\ [][NextCSV]_vars

\* the rows of a well-formed input: its non-blank lines, in order
WellFormed(lines) ==
    /\ \A k \in 1..Len(lines) : ~HasBareQuote(lines[k])
    /\ \A j, k \in 1..Len(lines) :
         lines[j] # <<>> /\ lines[k] # <<>> => Len(lines[j]) = Len(lines[k])
Rows(lines) == SelectSeq(lines, LAMBDA l : l # <<>>)
Min(a, b) == IF a <= b THEN a ELSE b

\* ---- C1 ----
\* C1: for every CSV input with rowCount >= 2 rows (header first) and
\* every maximum N >= 1, fromCSV succeeds and produces exactly
\* min(N, rowCount-1) items: the data rows of highest index, in strictly
\* descending row index; when the data rows number at most N every data
\* row, the first after the header included, becomes an item.
C1_NewestRows ==
    (csvPc = "done" /\ WellFormed(csvIn) /\ Len(Rows(csvIn)) >= 2) =>
        LET rows == Rows(csvIn)
            rowCount == Len(rows)
            n == Min(maxRecords, rowCount - 1)
        IN  /\ csvErr = ErrNil
            /\ Len(rs.Channel) = 1
            /\ Len(rs.Channel[1].Items) = n
            /\ \A k \in 1..n :
                 \E now \in Clock :
                    rs.Channel[1].Items[k]
                      = fromRecord(NewItem, rows[1], At(rows, rowCount - k), now)

\* ---- C6 ----
\* C6: for every CSV input that parses to 0 or 1 rows, fromCSV returns the
\* error "no records" and assembles no feed document: Version and Channel
\* of the rss value stay unset.
C6_EmptyInput ==
    (csvPc = "done" /\ WellFormed(csvIn) /\ Len(Rows(csvIn)) <= 1) =>
        /\ csvErr = ErrNoRecords
        /\ rs.Version = ""
        /\ rs.Channel = <<>>

\* a header and no data row, after a blank line
C6_Witness ==
    /\ csvPc = "done"
    /\ csvIn = <<<<>>, ExampleHeader>>
    /\ csvErr = ErrNoRecords
    /\ rs = NewRss

-----------------------------------------------------------------------------
(* Spec: the process.  main starts the refresh goroutine and serves /rss;  *)
(* every request runs sheet2rss.ServeHTTP in a goroutine of its own.       *)
(* log.Fatal exits the process: no goroutine takes a step afterwards.      *)

\* what the GET of sheet2rss.get can meet: an error of http.Get, an error
\* of ioutil.ReadAll, or a response with a status and a body
Bodies ==
    {<<>>,
     <<ExampleHeader>>,
     <<ExampleHeader, ExampleRow1>>,
     <<ExampleHeader, ExampleRow1, ExampleRow2>>,
     <<ExampleHeader, <<"short", "row">>>>}
FetchStatuses == {200, 500}
Responses ==
    {[transport |-> t, status |-> NoStatus, body |-> <<>>] : t \in {ErrDial, ErrRead}}
      \cup {[transport |-> ErrNil, status |-> st, body |-> b] :
              st \in FetchStatuses, b \in Bodies}

Init ==
    /\ pcMain = "go"
    /\ alive = TRUE
    /\ pcRefresh = "off"
    /\ resp = NoResponse
    /\ r = <<>> /\ feed = NewRss /\ content = "" /\ err = ErrNil
    \* handler := &sheet2rss{url: ..., mu: new(sync.Mutex)}
    /\ mu = Free /\ ready = FALSE /\ cached = "" /\ digest = ""
    /\ hpc = [h \in Handlers |-> "idle"]
    /\ method = [h \in Handlers |-> ""]
    /\ hcontent = [h \in Handlers |-> ""]
    /\ status = [h \in Handlers |-> NoStatus]
    /\ body = [h \in Handlers |-> ""]
    /\ recIdle /\ csvIdle

\* go handler.refresh()
MainGo ==
    /\ alive /\ pcMain = "go"
    /\ pcMain' = "listen"
    /\ pcRefresh' = "get"
    /\ UNCHANGED <<alive, resp, r, feed, content, err, cacheVars, handlerVars,
                   recVars, csvVars>>

\* http.Handle("/rss", handler); log.Fatal(http.ListenAndServe(...)):
\* the server starts serving, or ListenAndServe returns and the process exits
MainListen ==
    /\ alive /\ pcMain = "listen"
    /\ \E ok \in BOOLEAN :
         IF ok THEN pcMain' = "serving" /\ alive' = alive
               ELSE pcMain' = "fatal" /\ alive' = FALSE
    /\ UNCHANGED <<refreshVars, cacheVars, handlerVars, recVars, csvVars>>

\* ---- sheet2rss.refresh ----

\* mutant of RefreshGet: the error is logged and refresh goes on
RefreshGetNoFatal ==
    /\ alive /\ pcRefresh = "get"
    /\ \E rp \in Responses :
         /\ resp' = rp
         /\ err' = rp.transport
         /\ r' = rp.body
    /\ pcRefresh' = "fromCSV"
    /\ UNCHANGED <<pcMain, alive, feed, content, cacheVars, handlerVars,
                   recVars, csvVars>>

\* r, err := s.get(); if err != nil { log.Fatal(err) }
\* get returns the body whatever the status of the response
RefreshGet ==
    /\ alive /\ pcRefresh = "get"
    /\ \E rp \in Responses :
         /\ resp' = rp
         /\ err' = rp.transport
         /\ IF rp.transport # ErrNil
            THEN /\ alive' = FALSE /\ pcRefresh' = "fatal"
                 /\ r' = r
            ELSE /\ alive' = alive /\ pcRefresh' = "fromCSV"
                 /\ r' = rp.body
    /\ UNCHANGED <<pcMain, feed, content, cacheVars, handlerVars, recVars, csvVars>>

\* mutant of RefreshFromCSV: the error is logged and refresh goes on
RefreshFromCSVNoFatal ==
    /\ alive /\ pcRefresh = "fromCSV"
    /\ \E now \in Clock :
         LET res == fromCSV(NewRss, r, NumEntries, now)
         IN  feed' = res.rs /\ err' = res.err
    /\ pcRefresh' = "marshal"
    /\ UNCHANGED <<pcMain, alive, resp, r, content, cacheVars, handlerVars,
                   recVars, csvVars>>

\* feed := new(rss); err = feed.fromCSV(r, NumEntries); if err != nil { log.Fatal(err) }
RefreshFromCSV ==
    /\ alive /\ pcRefresh = "fromCSV"
    /\ \E now \in Clock :
         LET res == fromCSV(NewRss, r, NumEntries, now)
         IN  /\ feed' = res.rs
             /\ err' = res.err
             /\ IF res.err # ErrNil
                THEN alive' = FALSE /\ pcRefresh' = "fatal"
                ELSE alive' = alive /\ pcRefresh' = "marshal"
    /\ UNCHANGED <<pcMain, resp, r, content, cacheVars, handlerVars, recVars, csvVars>>

\* content, err := xml.Marshal(feed); if err != nil { log.Fatal(err) }
\* the error result is whatever the library gives
RefreshMarshal ==
    /\ alive /\ pcRefresh = "marshal"
    /\ \E merr \in {ErrNil, ErrMarshal} :
         /\ err' = merr
         /\ IF merr # ErrNil
            THEN /\ alive' = FALSE /\ pcRefresh' = "fatal"
                 /\ content' = content
            ELSE /\ alive' = alive /\ pcRefresh' = "digest"
                 /\ content' = Marshal(feed)
    /\ UNCHANGED <<pcMain, resp, r, feed, cacheVars, handlerVars, recVars, csvVars>>

\* mutant of RefreshDigest: ready is set along with the digest, before Lock
RefreshDigestAndReady ==
    /\ alive /\ pcRefresh = "digest"
    /\ digest' = Sha1Hex(content)
    /\ ready' = TRUE
    /\ pcRefresh' = "lock"
    /\ UNCHANGED <<pcMain, alive, resp, r, feed, content, err, mu, cached,
                   handlerVars, recVars, csvVars>>

\* hash := sha1.Sum(content); s.digest = fmt.Sprintf("% x", hash)
\* (the mutex is not held)
RefreshDigest ==
    /\ alive /\ pcRefresh = "digest"
    /\ digest' = Sha1Hex(content)
    /\ pcRefresh' = "lock"
    /\ UNCHANGED <<pcMain, alive, resp, r, feed, content, err, mu, ready, cached,
                   handlerVars, recVars, csvVars>>

\* s.mu.Lock(); defer s.mu.Unlock()
RefreshLock ==
    /\ alive /\ pcRefresh = "lock"
    /\ mu = Free
    /\ mu' = ByRefresh
    /\ pcRefresh' = "cached"
    /\ UNCHANGED <<pcMain, alive, resp, r, feed, content, err, ready, cached, digest,
                   handlerVars, recVars, csvVars>>

\* s.cached = content
RefreshStoreCached ==
    /\ alive /\ pcRefresh = "cached"
    /\ cached' = content
    /\ pcRefresh' = "ready"
    /\ UNCHANGED <<pcMain, alive, resp, r, feed, content, err, mu, ready, digest,
                   handlerVars, recVars, csvVars>>

\* s.ready = true
RefreshStoreReady ==
    /\ alive /\ pcRefresh = "ready"
    /\ ready' = TRUE
    /\ pcRefresh' = "unlock"
    /\ UNCHANGED <<pcMain, alive, resp, r, feed, content, err, mu, cached, digest,
                   handlerVars, recVars, csvVars>>

\* the deferred s.mu.Unlock(), then refresh returns
RefreshUnlock ==
    /\ alive /\ pcRefresh = "unlock"
    /\ mu' = Free
    /\ pcRefresh' = "done"
    /\ UNCHANGED <<pcMain, alive, resp, r, feed, content, err, ready, cached, digest,
                   handlerVars, recVars, csvVars>>

\* ---- sheet2rss.ServeHTTP ----

\* mutant of IsGet: HEAD is let through as well
IsGetOrHead(m) == m \in {"GET", "HEAD"}

\* r.Method != http.MethodGet, negated
IsGet(m) == m = "GET"

\* a request with method m reaches ServeHTTP in goroutine h:
\* if r.Method != http.MethodGet { w.WriteHeader(405); return }
\* var content []byte
HandlerStart(h, m) ==
    /\ alive /\ pcMain = "serving"
    /\ hpc[h] \in {"idle", "done"}
    /\ method' = [method EXCEPT ![h] = m]
    /\ hcontent' = [hcontent EXCEPT ![h] = ""]
    /\ body' = [body EXCEPT ![h] = ""]
    /\ IF IsGet(m)
       THEN /\ hpc' = [hpc EXCEPT ![h] = "lock"]
            /\ status' = [status EXCEPT ![h] = NoStatus]
       ELSE /\ hpc' = [hpc EXCEPT ![h] = "done"]
            /\ status' = [status EXCEPT ![h] = StatusMethodNotAllowed]
    /\ UNCHANGED <<pcMain, alive, refreshVars, cacheVars, recVars, csvVars>>

\* s.mu.Lock()
HandlerLock(h) ==
    /\ alive /\ hpc[h] = "lock"
    /\ mu = Free
    /\ mu' = ByHandler(h)
    /\ hpc' = [hpc EXCEPT ![h] = "read"]
    /\ UNCHANGED <<pcMain, alive, refreshVars, ready, cached, digest,
                   method, hcontent, status, body, recVars, csvVars>>

\* if s.ready { content = s.cached }
HandlerRead(h) ==
    /\ alive /\ hpc[h] = "read"
    /\ hcontent' = [hcontent EXCEPT ![h] = IF ready THEN cached ELSE @]
    /\ hpc' = [hpc EXCEPT ![h] = "unlock"]
    /\ UNCHANGED <<pcMain, alive, refreshVars, cacheVars,
                   method, status, body, recVars, csvVars>>

\* s.mu.Unlock()
HandlerUnlock(h) ==
    /\ alive /\ hpc[h] = "unlock"
    /\ mu' = Free
    /\ hpc' = [hpc EXCEPT ![h] = "respond"]
    /\ UNCHANGED <<pcMain, alive, refreshVars, ready, cached, digest,
                   method, hcontent, status, body, recVars, csvVars>>

\* mutant of HandlerRespond: the XML declaration is not written
HandlerRespondNoDecl(h) ==
    /\ alive /\ hpc[h] = "respond"
    /\ IF hcontent[h] # ""
       THEN /\ status' = [status EXCEPT ![h] = StatusOK]
            /\ body' = [body EXCEPT ![h] = hcontent[h]]
       ELSE /\ status' = [status EXCEPT ![h] = StatusNotFound]
            /\ body' = body
    /\ hpc' = [hpc EXCEPT ![h] = "done"]
    /\ UNCHANGED <<pcMain, alive, refreshVars, cacheVars,
                   method, hcontent, recVars, csvVars>>

\* if len(content) > 0 { w.Write(declaration); w.Write(content) }
\* else { w.WriteHeader(404) }; the first Write sends status 200
HandlerRespond(h) ==
    /\ alive /\ hpc[h] = "respond"
    /\ IF hcontent[h] # ""
       THEN /\ status' = [status EXCEPT ![h] = StatusOK]
            /\ body' = [body EXCEPT ![h] = XMLDecl \o hcontent[h]]
       ELSE /\ status' = [status EXCEPT ![h] = StatusNotFound]
            /\ body' = body
    /\ hpc' = [hpc EXCEPT ![h] = "done"]
    /\ UNCHANGED <<pcMain, alive, refreshVars, cacheVars,
                   method, hcontent, recVars, csvVars>>

Next ==
    \/ MainGo
    \/ MainListen
    \/ RefreshGet
    \/ RefreshFromCSV
    \/ RefreshMarshal
    \/ RefreshDigest
    \/ RefreshLock
    \/ RefreshStoreCached
    \/ RefreshStoreReady
    \/ RefreshUnlock
    \/ \E h \in Handlers, m \in Methods : HandlerStart(h, m)
    \/ \E h \in Handlers : HandlerLock(h)
    \/ \E h \in Handlers : HandlerRead(h)
    \/ \E h \in Handlers : HandlerUnlock(h)
    \/ \E h \in Handlers : HandlerRespond(h)

Spec == Init /\ [][Next]_vars

-----------------------------------------------------------------------------
(* Claims about the process *)

RefreshCompleted == pcRefresh = "done"
InCritical(h) == hpc[h] \in {"read", "unlock"}

\* ---- C2 ----
\* the responses standing in a state
C2_Answers ==
    \A h \in Handlers :
        (hpc[h] = "done" /\ method[h] = "GET") =>
            \/ status[h] = StatusNotFound /\ body[h] = ""
            \/ /\ status[h] = StatusOK
               /\ RefreshCompleted
               /\ cached # ""
               /\ body[h] = XMLDecl \o cached

\* a handler that reads the cache while no refresh has completed goes on
\* to answer 404 with an empty body; one that reads it after the refresh
\* has completed goes on to answer 200 with the declaration and the cache
C2_Handled(h) ==
    /\ (hpc[h] = "read" /\ hpc'[h] = "unlock") =>
          hcontent'[h] = (IF RefreshCompleted THEN cached ELSE "")
    /\ (hpc[h] = "respond" /\ hpc'[h] = "done") =>
          IF hcontent[h] = ""
          THEN status'[h] = StatusNotFound /\ body'[h] = ""
          ELSE status'[h] = StatusOK /\ body'[h] = XMLDecl \o cached

\* C2: in every interleaving of the refresh task with request handlers, a
\* GET /rss handled while no refresh has completed is answered 404 with an
\* empty body, and a GET /rss handled after a refresh has completed
\* successfully is answered 200 with a body equal to the XML declaration
\* followed by exactly the cached serialized bytes.
C2_GetRss ==
    /\ [](~RefreshCompleted =>
            \A h \in Handlers : hpc[h] = "done" /\ method[h] = "GET" =>
                status[h] = StatusNotFound /\ body[h] = "")
    /\ []C2_Answers
    /\ [][\A h \in Handlers : C2_Handled(h)]_vars

\* one request answered 404 before the refresh completed, another 200 after
C2_Witness ==
    /\ RefreshCompleted
    /\ \E g, h \in Handlers :
         /\ hpc[g] = "done" /\ method[g] = "GET" /\ status[g] = StatusNotFound
         /\ hpc[h] = "done" /\ method[h] = "GET" /\ status[h] = StatusOK
         /\ body[h] = XMLDecl \o Marshal(feed)

\* ---- C3 ----
\* the mutex is held by whoever is between its Lock and its Unlock
C3_MutexHeld ==
    /\ \A h \in Handlers : InCritical(h) => mu = ByHandler(h)
    /\ pcRefresh \in {"cached", "ready", "unlock"} => mu = ByRefresh

\* C3: a request handler never observes a partially published CachedFeed:
\* whenever a handler reads ready = true inside its critical section, the
\* bytes it copies out are the complete serialized output of the refresh
\* (never empty), refresh and handlers touching ready and the cached bytes
\* only while holding the mutex.
C3_AtomicPublication ==
    /\ []C3_MutexHeld
    /\ [][\A h \in Handlers :
            (hpc[h] = "read" /\ hpc'[h] = "unlock" /\ ready) =>
                /\ hcontent'[h] = Marshal(feed)
                /\ hcontent'[h] # ""
                /\ pcRefresh = "done"]_vars

\* a handler past its critical section holding the published bytes while
\* another waits for the mutex
C3_Witness ==
    \E g, h \in Handlers :
        /\ hpc[h] = "unlock" /\ ready /\ hcontent[h] = cached /\ cached # ""
        /\ hpc[g] = "lock"

\* ---- C4 ----
\* C4: the cache state machine is one-way Empty -> Ready: ready is false
\* initially, the only step that sets it is the last statement of a
\* refresh whose fetch, CSV conversion and serialization all succeeded,
\* and ready never goes from true back to false.
C4_OneWayReady ==
    /\ ready = FALSE
    /\ [][ready => ready']_vars
    /\ [][(~ready /\ ready') =>
            /\ pcRefresh = "ready" /\ pcRefresh' = "unlock"
            /\ mu = ByRefresh
            /\ resp.transport = ErrNil /\ err = ErrNil
            /\ feed.Version = "2.0" /\ feed.Channel # <<>>
            /\ content = Marshal(feed)
            /\ cached = content]_vars

\* Ready, with a handler having started a further request afterwards
C4_Witness ==
    /\ ready /\ pcRefresh = "done"
    /\ \E h \in Handlers : hpc[h] = "done" /\ status[h] = StatusOK
    /\ \E h \in Handlers : hpc[h] = "read"

\* ---- C5 ----
\* C5: if the fetch, the CSV conversion or the serialization fails during
\* refresh, the process terminates at that step without publishing: the
\* cached bytes and ready are left unchanged (ready stays false), so no
\* request is ever answered 200 after it; and the only statuses a client
\* of /rss ever receives are 200, 404 and 405.
C5_FatalRefresh ==
    /\ err # ErrNil => pcRefresh = "fatal"
    /\ pcRefresh = "fatal" =>
         /\ ~alive
         /\ err # ErrNil
         /\ ready = FALSE /\ cached = "" /\ mu # ByRefresh
         /\ \A h \in Handlers : status[h] # StatusOK
    /\ \A h \in Handlers :
         status[h] \in {NoStatus, StatusOK, StatusNotFound, StatusMethodNotAllowed}

\* the conversion failed with one request answered 404 and another in flight
C5_Witness ==
    /\ pcRefresh = "fatal" /\ err = ErrNoRecords
    /\ \E g, h \in Handlers :
         /\ hpc[g] = "done" /\ status[g] = StatusNotFound
         /\ hpc[h] = "respond"

\* ---- C8 ----
\* C8: a request to /rss with any method other than GET is answered 405 in
\* every cache state, and handling it neither reads nor changes ready, the
\* cached bytes or the digest (it never takes the mutex and copies nothing).
C8_MethodNotAllowed ==
    /\ [](\A h \in Handlers :
            method[h] \in Methods \ {"GET"} =>
                /\ hpc[h] = "done"
                /\ status[h] = StatusMethodNotAllowed
                /\ body[h] = "" /\ hcontent[h] = ""
                /\ mu # ByHandler(h))
    /\ [][\A h \in Handlers :
            (method'[h] # "GET" /\ <<hpc[h], method[h], status[h]>>
                                     # <<hpc'[h], method'[h], status'[h]>>) =>
                /\ status'[h] = StatusMethodNotAllowed
                /\ UNCHANGED cacheVars]_vars

\* a HEAD answered 405 in the Ready state, beside a GET answered 200
C8_Witness ==
    /\ ready /\ pcRefresh = "done"
    /\ \E h \in Handlers : method[h] = "HEAD" /\ status[h] = StatusMethodNotAllowed
    /\ \E h \in Handlers : method[h] = "GET" /\ status[h] = StatusOK

\* ---- C9 ----
\* C9: refresh mutates the CachedFeed only under the mutex: in every state
\* in which the mutex is free the stored digest is the SHA-1 digest of the
\* stored cached bytes, or both are still unset.
C9_DigestUnderMutex ==
    mu = Free =>
        \/ digest = "" /\ cached = ""
        \/ digest = Sha1Hex(cached)

\* ---- C10 ----
\* C10: sheet2rss.get fails with a fetch error both on a transport failure
\* and on a response with a non-success status; a refresh whose fetch
\* received a non-success status never builds or publishes a feed from
\* that body.
C10_FetchStatusChecked ==
    (pcRefresh \notin {"off", "get"}
       /\ (resp.transport # ErrNil \/ resp.status \notin 200..299)) =>
        /\ pcRefresh = "fatal"
        /\ err # ErrNil
        /\ feed = NewRss
        /\ ~ready

====
